---- MODULE Spec2Model ----
(***************************************************************************)
(* The unsaved-changes navigation guard (usePrompt) and the confirmation   *)
(* dialog provider (ConfirmProvider) of vite-react-template.               *)
(*                                                                         *)
(* One action is one browser task: the event handler, the promise          *)
(* continuations (microtasks) it releases, and the re-render with the      *)
(* effects React runs for it.                                              *)
(*                                                                         *)
(* Optional properties of a JavaScript object are record fields that may   *)
(* be missing: Get(r, f, d) reads field f of r, and d when r has no f.     *)
(***************************************************************************)
EXTENDS Integers, Sequences, FiniteSets, TLC

\* ------------------------------------------------------------------ bounds
\* Blocked transitions a behaviour may contain.
MaxNavs == 2
\* Promises that confirm() may create with `new Promise` in a behaviour.
MaxPromises == 2

\* ------------------------------------------------------------ input spaces
GuardIds == {1, 2}
OneGuard == {1}

Paths == {"/", "/contact"}

DefaultTitle == "You have unsaved changes!"
DefaultSubtitle == "Are you sure you want to leave?"
DefaultConfirmText == "Leave"
DefaultCancelText == "Stay"
DefaultType == "warning"

\* What a label shows when its text is undefined, and the callback that is
\* not there.
Undefined == "undefined"
NoCallback == "none"

Get(r, f, d) == IF f \in DOMAIN r THEN r[f] ELSE d

\* Arguments a consumer passes to usePrompt (ConfirmOptions & {isDirty?}):
\* HomePage's, ContactPage's before an input, and three of a consumer with
\* texts and callbacks of its own (isDirty missing, isDirty true, and a dirty
\* one whose subtitle is the empty string).
DirtyDefaults == [isDirty |-> TRUE]

CleanDefaults == [isDirty |-> FALSE]

DraftNoFlag ==
  [title |-> "Discard draft?", subtitle |-> "Your draft will be lost.",
   confirmText |-> "Discard", cancelText |-> "Keep", type |-> "error",
   onConfirm |-> "onDiscard", onCancel |-> "onKeep"]

DraftDirty ==
  [isDirty |-> TRUE, title |-> "Discard draft?",
   subtitle |-> "Your draft will be lost.", confirmText |-> "Discard",
   cancelText |-> "Keep", type |-> "error",
   onConfirm |-> "onDiscard", onCancel |-> "onKeep"]

DirtyEmptySubtitle == [isDirty |-> TRUE, subtitle |-> "", onConfirm |-> "onDiscard"]

PromptOptions ==
  {DirtyDefaults, CleanDefaults, DraftNoFlag, DraftDirty, DirtyEmptySubtitle}

\* A callback stored in a request: `inner` is the consumer's function (or
\* NoCallback); promise > 0 makes it one of the wrappers built by confirm(),
\* which first resolves that promise to `value`.
Callback(promise, value, inner) ==
  [promise |-> promise, value |-> value, inner |-> inner]

Plain(inner) == Callback(0, FALSE, inner)

Absent == Callback(0, FALSE, NoCallback)

\* show(null)
Null == [null |-> TRUE]

\* Arguments other callers of useConfirm().show pass: null, and a request
\* with no type, no cancel label and no onCancel.
DeleteRequest ==
  [title |-> "Delete item?", subtitle |-> "This cannot be undone.",
   confirmText |-> "Delete", onConfirm |-> Plain("onDelete")]

ExternalRequests == {Null, DeleteRequest}

\* Consumer callbacks that throw.
Throwing == {"onThrow"}

NoProps == [unmounted |-> TRUE]

\* window.onbeforeunload: null, or a handler and the string it returns.
NoHandler == <<>>

Handler(text) == <<text>>

IdleBlocker == [state |-> "unblocked", nav |-> 0]

\* ContactPage: the fields of its form, what the user may leave in one, the
\* initial state of its reducer, and the page while it is not rendered.
Fields == {"name", "email", "message"}

FieldValues == {"", "a"}

initialState == [name |-> "", email |-> "", message |-> ""]

NoContact == [mounted |-> FALSE, state |-> initialState, isDirty |-> FALSE]

ContactPath == "/contact"

\* The error of useConfirm, and no error.
UseConfirmError == "useConfirm must be used within a ConfirmProvider"

NoError == ""

\* -------------------------------------------------------------------- state
VARIABLES
  contact,         \* ContactPage: whether it is rendered, its form state, its isDirty
  provided,        \* whether a ConfirmProvider is an ancestor of the consumers
  confirm,         \* ConfirmProvider: the stored request (useState, null at first)
  open,            \* ConfirmProvider: dialog visibility
  props,           \* per guard: the arguments of its latest render (NoProps: not mounted)
  blocker,         \* per guard: what useBlocker returns
  location,        \* the router's current location
  navs,            \* the blocked transitions, by number
  promises,        \* the promises created by confirm() with new Promise, by number
  onbeforeunload,  \* window.onbeforeunload
  trace            \* what the last task did

vars ==
  <<contact, provided, confirm, open, props, blocker, location, navs, promises, onbeforeunload, trace>>

\* Destructuring that takes a missing isDirty for true.
usePromptArgsDirtyByDefault(p) ==
  [isDirty |-> Get(p, "isDirty", TRUE),
   title |-> Get(p, "title", DefaultTitle),
   subtitle |-> Get(p, "subtitle", DefaultSubtitle),
   confirmText |-> Get(p, "confirmText", DefaultConfirmText),
   cancelText |-> Get(p, "cancelText", DefaultCancelText),
   onConfirm |-> Get(p, "onConfirm", NoCallback),
   onCancel |-> Get(p, "onCancel", NoCallback),
   type |-> Get(p, "type", DefaultType)]

\* The destructuring defaults of usePrompt.
usePromptArgs(p) ==
  [isDirty |-> Get(p, "isDirty", FALSE),
   title |-> Get(p, "title", DefaultTitle),
   subtitle |-> Get(p, "subtitle", DefaultSubtitle),
   confirmText |-> Get(p, "confirmText", DefaultConfirmText),
   cancelText |-> Get(p, "cancelText", DefaultCancelText),
   onConfirm |-> Get(p, "onConfirm", NoCallback),
   onCancel |-> Get(p, "onCancel", NoCallback),
   type |-> Get(p, "type", DefaultType)]

Mounted(g) == props[g] # NoProps

IsDirty(p) == usePromptArgs(p).isDirty

\* ------------------------------------------------------------- the task log
\* What the last task did: the results of its confirm() calls ("true", or
\* "pending" for a new promise), its show() calls, the consumer callbacks it
\* invoked, the transitions it called proceed() and reset() on, what its
\* show() calls returned, and the error a render threw.
NewTrace ==
  [results |-> <<>>, shows |-> 0, invoked |-> <<>>, proceeds |-> {}, resets |-> {},
   returned |-> <<>>, error |-> NoError]

\* The state a task works on.
World ==
  [contact |-> contact, confirm |-> confirm, open |-> open, props |-> props, blocker |-> blocker,
   location |-> location, navs |-> navs, promises |-> promises,
   onbeforeunload |-> onbeforeunload, trace |-> NewTrace]

Commit(w) ==
  /\ contact' = w.contact
  /\ provided' = provided
  /\ confirm' = w.confirm
  /\ open' = w.open
  /\ props' = w.props
  /\ blocker' = w.blocker
  /\ location' = w.location
  /\ navs' = w.navs
  /\ promises' = w.promises
  /\ onbeforeunload' = w.onbeforeunload
  /\ trace' = w.trace

\* The provider and the page before any consumer is rendered.
InitTree ==
  /\ contact = NoContact
  /\ confirm = Null
  /\ open = FALSE
  /\ props = [g \in GuardIds |-> NoProps]
  /\ blocker = [g \in GuardIds |-> IdleBlocker]
  /\ location = "/"
  /\ navs = <<>>
  /\ promises = <<>>
  /\ onbeforeunload = NoHandler
  /\ trace = NewTrace

\* ReactDOM.createRoot(...).render(<ConfirmProvider><App /></ConfirmProvider>).
Init == provided = TRUE /\ InitTree

\* A tree whose consumers may have no ConfirmProvider above them.
InitAnyTree == provided \in BOOLEAN /\ InitTree

\* --------------------------------------------------------- ConfirmProvider
\* show merging the new options into the stored request.
showMerging(w, confirmOptions) ==
  [w EXCEPT
     !.confirm = [f \in DOMAIN w.confirm \cup DOMAIN confirmOptions |->
                    IF f \in DOMAIN confirmOptions THEN confirmOptions[f]
                    ELSE w.confirm[f]],
     !.open = TRUE,
     !.trace.shows = @ + 1,
     !.trace.returned = Append(@, Undefined)]

\* A show() that keeps the request the open dialog is showing.
showKeepsPending(w, confirmOptions) ==
  IF w.open
  THEN [w EXCEPT !.trace.shows = @ + 1, !.trace.returned = Append(@, Undefined)]
  ELSE [w EXCEPT !.confirm = confirmOptions, !.open = TRUE, !.trace.shows = @ + 1,
                 !.trace.returned = Append(@, Undefined)]

\* show: setConfirm(confirmOptions); toggle(true). It has no return statement.
show(w, confirmOptions) ==
  [w EXCEPT !.confirm = confirmOptions, !.open = TRUE, !.trace.shows = @ + 1,
            !.trace.returned = Append(@, Undefined)]

\* A useConfirm that returns the context it finds, null included.
useConfirmNeverThrows == FALSE

\* useConfirm: if (!context) throw new Error(...). The context is the
\* provider's {show}, or the null createContext was given.
useConfirmThrows == ~provided

\* The render that threw: nothing is committed, no effect runs.
thrown(w, message) == [w EXCEPT !.trace.error = message]

\* ------------------------------------------------------- before-unload effect
\* An effect whose cleanup leaves the handler in place.
beforeunloadCleanupKeeps(w) == w

beforeunloadCleanup(w) == [w EXCEPT !.onbeforeunload = NoHandler]

beforeunloadEffect(w, g) ==
  LET a == usePromptArgs(w.props[g])
  IN  IF a.isDirty THEN [w EXCEPT !.onbeforeunload = Handler(a.subtitle)] ELSE w

\* ------------------------------------------------------------ routing layer
\* A blocker that blocks whatever isDirty is.
shouldBlockAlways(p) == TRUE

\* The function useBlocker(isDirty) registers: block while isDirty.
shouldBlock(p) == IsDirty(p)

\* blocker.proceed() of blocked transition n: the transition completes.
proceed(w, n) ==
  LET g == w.navs[n].guard
      w1 == [w EXCEPT !.trace.proceeds = @ \cup {n}]
  IN  IF w.blocker[g] = [state |-> "blocked", nav |-> n]
      THEN [w1 EXCEPT !.navs[n].status = "completed",
                      !.location = w.navs[n].to,
                      !.blocker[g] = IdleBlocker]
      ELSE w1

\* A reset() that aborts the transition and leaves the blocker blocked.
resetKeepsBlocker(w, n) ==
  LET g == w.navs[n].guard
      w1 == [w EXCEPT !.trace.resets = @ \cup {n}]
  IN  IF w.blocker[g] = [state |-> "blocked", nav |-> n]
      THEN [w1 EXCEPT !.navs[n].status = "reset"]
      ELSE w1

\* A reset() that also marks the consumer's form clean.
resetClearsDirty(w, n) ==
  LET g == w.navs[n].guard
      w1 == [w EXCEPT !.trace.resets = @ \cup {n}]
  IN  IF w.blocker[g] = [state |-> "blocked", nav |-> n]
      THEN [w1 EXCEPT !.navs[n].status = "reset", !.blocker[g] = IdleBlocker,
                      !.props[g] = [@ EXCEPT !.isDirty = FALSE]]
      ELSE w1

\* blocker.reset() of blocked transition n: the transition is dropped.
reset(w, n) ==
  LET g == w.navs[n].guard
      w1 == [w EXCEPT !.trace.resets = @ \cup {n}]
  IN  IF w.blocker[g] = [state |-> "blocked", nav |-> n]
      THEN [w1 EXCEPT !.navs[n].status = "reset", !.blocker[g] = IdleBlocker]
      ELSE w1

\* ---------------------------------------------------------------- usePrompt
\* The continuation calling proceed() whatever the result.
blockerThenAlwaysProceeds(w, n, result) ==
  IF n = 0 THEN w ELSE proceed(w, n)

\* The continuation of the blocker effect: confirm().then((result) => ...).
\* n = 0: confirm() was called by the consumer, not by the effect.
blockerThen(w, n, result) ==
  IF n = 0 THEN w
  ELSE IF result THEN proceed(w, n)
  ELSE reset(w, n)

\* confirm() with the two button labels exchanged.
promptRequestLabelsSwapped(a, pid) ==
  [title |-> a.title, subtitle |-> a.subtitle, confirmText |-> a.cancelText,
   cancelText |-> a.confirmText, type |-> a.type,
   onConfirm |-> Callback(pid, TRUE, a.onConfirm),
   onCancel |-> Callback(pid, FALSE, a.onCancel)]

\* The request confirm() hands to show(): the guard's texts and type, and the
\* two wrappers around the consumer's callbacks.
promptRequest(a, pid) ==
  [title |-> a.title, subtitle |-> a.subtitle, confirmText |-> a.confirmText,
   cancelText |-> a.cancelText, type |-> a.type,
   onConfirm |-> Callback(pid, TRUE, a.onConfirm),
   onCancel |-> Callback(pid, FALSE, a.onCancel)]

\* confirm() without its early return.
confirmNeverReturnsEarly(a) == FALSE

\* The early return of confirm(): no dialog while the form is clean.
confirmReturnsEarly(a) == ~a.isDirty

\* confirm() of the latest render of guard g, awaited for blocked transition n
\* (0: by the consumer). Promise.resolve(true) runs its continuation in the
\* same task; new Promise is stored under the next number.
usePromptConfirm(w, g, n) ==
  LET a == usePromptArgs(w.props[g])
      pid == Len(w.promises) + 1
  IN  IF confirmReturnsEarly(a)
      THEN blockerThen([w EXCEPT !.trace.results = Append(@, "true")], n, TRUE)
      ELSE show([w EXCEPT
                   !.promises = Append(@, [state |-> "pending", nav |-> n]),
                   !.trace.results = Append(@, "pending")],
                promptRequest(a, pid))

\* useEffect(..., [blocker, confirm]).
blockerEffect(w, g) ==
  IF w.blocker[g].state = "blocked"
  THEN usePromptConfirm(w, g, w.blocker[g].nav)
  ELSE w

\* The dependency lists of useCallback (confirm) and of the before-unload effect.
confirmDeps(p) ==
  LET a == usePromptArgs(p)
  IN  <<a.cancelText, a.confirmText, a.isDirty, a.onCancel, a.onConfirm,
        a.subtitle, a.title, a.type>>

\* The before-unload effect depending on isDirty alone.
beforeunloadDepsWithoutSubtitle(p) ==
  LET a == usePromptArgs(p) IN <<a.isDirty>>

beforeunloadDeps(p) ==
  LET a == usePromptArgs(p) IN <<a.isDirty, a.subtitle>>

\* ------------------------------------------------------- the dialog's controls

\* Wrappers that run the consumer's function before they resolve the promise:
\* a throw leaves the promise pending.
callBeforeResolve(w, cb) ==
  LET p == cb.promise
      w1 == IF cb.inner # NoCallback
            THEN [w EXCEPT !.trace.invoked = Append(@, cb.inner)]
            ELSE w
  IN  IF p > 0 /\ w.promises[p].state = "pending" /\ cb.inner \notin Throwing
      THEN [w1 EXCEPT !.promises[p].state = IF cb.value THEN "true" ELSE "false"]
      ELSE w1

\* Calling a stored callback: a wrapper resolves its promise (a settled promise
\* stays as it is), then the consumer's function runs, if there is one.
call(w, cb) ==
  LET p == cb.promise
      w1 == IF p > 0 /\ w.promises[p].state = "pending"
            THEN [w EXCEPT !.promises[p].state = IF cb.value THEN "true" ELSE "false"]
            ELSE w
  IN  IF cb.inner # NoCallback
      THEN [w1 EXCEPT !.trace.invoked = Append(@, cb.inner)]
      ELSE w1

\* A toggle(false) reached only after a consumer callback ran.
closeOnlyAfterCallback(w) ==
  IF w.trace.invoked = <<>> THEN w ELSE [w EXCEPT !.open = FALSE]

\* A control that leaves the dialog visible.
closeLeavesOpen(w) == w

\* toggle(false), not reached when the callback threw.
close(w) ==
  IF \E i \in DOMAIN w.trace.invoked : w.trace.invoked[i] \in Throwing
  THEN w
  ELSE [w EXCEPT !.open = FALSE]

\* ConfirmProvider.onConfirm and onCancel.
onConfirm(w) == close(call(w, Get(w.confirm, "onConfirm", Absent)))

\* onCancel wired to the request's confirm callback.
onCancelCallsOnConfirm(w) == close(call(w, Get(w.confirm, "onConfirm", Absent)))

onCancel(w) == close(call(w, Get(w.confirm, "onCancel", Absent)))

\* The promises a task settled, and their continuations (microtasks).
Settled(w0, w) ==
  {p \in 1..Len(w0.promises) :
     w0.promises[p].state = "pending" /\ w.promises[p].state # "pending"}

runThen(w0, w) ==
  IF Settled(w0, w) = {} THEN w
  ELSE LET p == CHOOSE q \in Settled(w0, w) : TRUE
       IN  blockerThen(w, w.promises[p].nav, w.promises[p].state = "true")

\* What the Confirm component is given: type="warning" {...confirm} open={open},
\* and its own default for type.
Displayed ==
  [open |-> open,
   title |-> Get(confirm, "title", Undefined),
   subtitle |-> Get(confirm, "subtitle", Undefined),
   confirmText |-> Get(confirm, "confirmText", Undefined),
   cancelText |-> Get(confirm, "cancelText", Undefined),
   type |-> Get(confirm, "type", DefaultType)]

\* ------------------------------------------------------------------ actions
\* First render of a consumer of usePrompt and its effects; without a
\* provider useConfirm throws in the render.
Mount(g, p) ==
  /\ ~Mounted(g)
  /\ LET w0 == World
         w1 == [w0 EXCEPT !.props[g] = p]
     IN  IF useConfirmThrows
         THEN Commit(thrown(w0, UseConfirmError))
         ELSE Commit(beforeunloadEffect(blockerEffect(w1, g), g))

\* A later render of usePrompt with arguments p: React runs the effects whose
\* dependencies changed (cleanup first).
usePromptRender(w, g, p) ==
  LET newConfirm == confirmDeps(p) # confirmDeps(w.props[g])
      newUnload == beforeunloadDeps(p) # beforeunloadDeps(w.props[g])
      w1 == [w EXCEPT !.props[g] = p]
      w2 == IF newConfirm THEN blockerEffect(w1, g) ELSE w1
  IN  IF newUnload THEN beforeunloadEffect(beforeunloadCleanup(w2), g) ELSE w2

\* The consumer renders again with other arguments.
Rerender(g, p) ==
  /\ Mounted(g)
  /\ p # props[g]
  /\ (confirmDeps(p) # confirmDeps(props[g]) /\ blocker[g].state = "blocked"
        /\ IsDirty(p))
       => Len(promises) < MaxPromises
  /\ Commit(usePromptRender(World, g, p))

\* The consumer leaves the tree: the effects' cleanups run and useBlocker
\* deletes its blocker. A consumer is a route element, so it stays while its
\* transition is blocked.
Unmount(g) ==
  /\ Mounted(g)
  /\ blocker[g].state # "blocked"
  /\ LET w0 == World
         w1 == [w0 EXCEPT !.props[g] = NoProps, !.blocker[g] = IdleBlocker]
     IN  Commit(beforeunloadCleanup(w1))

\* A navigation attempt (a link, the back button). The router asks the
\* registered blocker functions; when one blocks, the location stays, the
\* router hands that guard a blocked blocker, the guard renders again and its
\* blocker effect runs. A new attempt waits while a transition is blocked.
Navigate(to) ==
  /\ to # location
  /\ \A g \in GuardIds : blocker[g].state = "unblocked"
  /\ LET blocking == {g \in GuardIds : Mounted(g) /\ shouldBlock(props[g])}
         n == Len(navs) + 1
     IN  IF blocking = {}
         THEN Commit([World EXCEPT !.location = to])
         ELSE /\ Len(navs) < MaxNavs
              /\ Len(promises) < MaxPromises
              /\ \E g \in blocking :
                   Commit(blockerEffect(
                     [World EXCEPT
                        !.navs = Append(@, [guard |-> g, from |-> location,
                                            to |-> to, status |-> "blocked"]),
                        !.blocker[g] = [state |-> "blocked", nav |-> n]],
                     g))

\* The consumer calls the confirm() that usePrompt returned.
DirectConfirm(g) ==
  /\ Mounted(g)
  /\ IsDirty(props[g]) => Len(promises) < MaxPromises
  /\ Commit(usePromptConfirm(World, g, 0))

\* Another consumer of useConfirm calls show.
ExternalShow(r) ==
  /\ r \in ExternalRequests
  /\ IF useConfirmThrows
     THEN Commit(thrown(World, UseConfirmError))
     ELSE Commit(show(World, r))

\* The user presses the confirm button, the cancel button, the close icon.
UserConfirm ==
  /\ open
  /\ LET w0 == World IN Commit(runThen(w0, onConfirm(w0)))

UserCancel ==
  /\ open
  /\ LET w0 == World IN Commit(runThen(w0, onCancel(w0)))

UserDismiss ==
  /\ open
  /\ LET w0 == World IN Commit(runThen(w0, onCancel(w0)))

Next ==
  \/ \E g \in OneGuard, p \in PromptOptions : Mount(g, p)
  \/ \E g \in OneGuard, p \in PromptOptions : Rerender(g, p)
  \/ \E g \in OneGuard : Unmount(g)
  \/ \E to \in Paths : Navigate(to)
  \/ \E g \in OneGuard : DirectConfirm(g)
  \/ \E r \in ExternalRequests : ExternalShow(r)
  \/ UserConfirm
  \/ UserCancel
  \/ UserDismiss

Spec == Init /\ [][Next]_vars

SpecAnyTree == InitAnyTree /\ [][Next]_vars

\* The user answers every dialog that stays displayed.
SpecAnswered ==
  /\ Init
  /\ [][Next]_vars
  /\ WF_vars(UserConfirm \/ UserCancel \/ UserDismiss)

\* Two consumers of usePrompt in the tree at once (a page and a form in it).
TwoGuardOptions == {DirtyDefaults, CleanDefaults, DraftDirty}

NextTwoGuards ==
  \/ \E g \in GuardIds, p \in TwoGuardOptions : Mount(g, p)
  \/ \E g \in GuardIds, p \in TwoGuardOptions : Rerender(g, p)
  \/ \E g \in GuardIds : Unmount(g)
  \/ \E to \in Paths : Navigate(to)
  \/ UserConfirm
  \/ UserCancel
  \/ UserDismiss

SpecTwoGuards == Init /\ [][NextTwoGuards]_vars

\* A consumer whose callbacks throw.
DirtyThrowing == [isDirty |-> TRUE, onConfirm |-> "onThrow", onCancel |-> "onThrow"]

ThrowingOptions == {DirtyDefaults, CleanDefaults, DirtyThrowing}

NextThrowing ==
  \/ \E g \in OneGuard, p \in ThrowingOptions : Mount(g, p)
  \/ \E g \in OneGuard, p \in ThrowingOptions : Rerender(g, p)
  \/ \E g \in OneGuard : Unmount(g)
  \/ \E to \in Paths : Navigate(to)
  \/ \E g \in OneGuard : DirectConfirm(g)
  \/ UserConfirm
  \/ UserCancel
  \/ UserDismiss

SpecThrowing == Init /\ [][NextThrowing]_vars

\* ------------------------------------------------------------- ContactPage
\* The guard of ContactPage.
ContactGuard == 1

formReducer(state, action) ==
  IF action.type = "UPDATE_FIELD"
  THEN [state EXCEPT ![action.field] = action.value]
  ELSE IF action.type = "RESET_FORM" THEN initialState ELSE state

\* handleInputChange: setIsDirty(true); dispatch(UPDATE_FIELD).
handleInputChange(w, field, value) ==
  [w EXCEPT
     !.contact.isDirty = TRUE,
     !.contact.state =
        formReducer(@, [type |-> "UPDATE_FIELD", field |-> field, value |-> value])]

\* A submit that resets the fields and leaves the flag.
handleSubmitKeepsDirty(w) ==
  [w EXCEPT !.contact.state = formReducer(@, [type |-> "RESET_FORM"])]

\* handleSubmit: setIsDirty(false); dispatch(RESET_FORM).
handleSubmit(w) ==
  [w EXCEPT
     !.contact.isDirty = FALSE,
     !.contact.state = formReducer(@, [type |-> "RESET_FORM"])]

\* A submit button that needs one filled field only.
canSubmitWithAnyField(state) ==
  state.name # "" \/ state.email # "" \/ state.message # ""

\* canSubmit = state.name && state.email && state.message: a string is truthy
\* when it is not empty. The button is disabled={!canSubmit}.
canSubmit(state) ==
  state.name # "" /\ state.email # "" /\ state.message # ""

\* ContactPage renders again: usePrompt({isDirty}).
ContactPageRender(w) ==
  usePromptRender(w, ContactGuard, [isDirty |-> w.contact.isDirty])

\* The route element follows the location.
RouteSettled == contact.mounted <=> (location = ContactPath)

\* The router renders ContactPage for its path: useReducer(initialState),
\* useState(false), the first render of usePrompt and its effects.
ContactMount ==
  /\ ~contact.mounted
  /\ location = ContactPath
  /\ LET w1 == [World EXCEPT
                  !.contact = [mounted |-> TRUE, state |-> initialState,
                               isDirty |-> FALSE],
                  !.props[ContactGuard] = [isDirty |-> FALSE]]
     IN  Commit(beforeunloadEffect(blockerEffect(w1, ContactGuard), ContactGuard))

\* The location left the path of ContactPage: the page and its guard unmount.
ContactUnmount ==
  /\ contact.mounted
  /\ location # ContactPath
  /\ Commit(beforeunloadCleanup(
       [World EXCEPT !.contact = NoContact,
                     !.props[ContactGuard] = NoProps,
                     !.blocker[ContactGuard] = IdleBlocker]))

\* The user changes the value of a field.
InputChange(field, value) ==
  /\ contact.mounted
  /\ RouteSettled
  /\ value # contact.state[field]
  /\ Commit(ContactPageRender(handleInputChange(World, field, value)))

\* The user submits the form; a disabled submit button submits nothing.
Submit ==
  /\ contact.mounted
  /\ RouteSettled
  /\ canSubmit(contact.state)
  /\ Commit(ContactPageRender(handleSubmit(World)))

\* The user clicks a link of the navigation bar.
LinkClick(to) ==
  /\ RouteSettled
  /\ Navigate(to)

\* The user answers the dialog.
DialogAnswer ==
  /\ RouteSettled
  /\ (UserConfirm \/ UserCancel \/ UserDismiss)

NextContact ==
  \/ ContactMount
  \/ ContactUnmount
  \/ \E field \in Fields, value \in FieldValues : InputChange(field, value)
  \/ Submit
  \/ \E to \in Paths : LinkClick(to)
  \/ DialogAnswer

SpecContact == Init /\ [][NextContact]_vars

\* ------------------------------------------------------------------- claims
Blocked(g) == blocker[g].state = "blocked"

\* What the dialog shows for a guard whose arguments, defaults applied, are a.
ShownFor(a) ==
  [open |-> TRUE, title |-> a.title, subtitle |-> a.subtitle,
   confirmText |-> a.confirmText, cancelText |-> a.cancelText, type |-> a.type]

\* The stored request's wrappers, when confirm() built it: their promise.
StoredPromise == Get(confirm, "onConfirm", Absent).promise

Invocation(inner) == IF inner = NoCallback THEN <<>> ELSE <<inner>>

\* C1: confirm() of a guard whose isDirty is false (given or by default)
\* resolves to true at once, calls show() not at all, leaves the dialog's
\* visibility and the stored request as they are, and invokes no consumer
\* callback; so does every confirm() that resolved at once.
C1_CleanConfirmResolvesTrue ==
  [][/\ \A g \in GuardIds :
          (DirectConfirm(g) /\ ~IsDirty(props[g])) => trace'.results = <<"true">>
     /\ trace'.results = <<"true">> =>
          /\ trace'.shows = 0
          /\ trace'.invoked = <<>>
          /\ UNCHANGED <<confirm, open>>]_vars

\* A clean guard with callbacks called confirm() while another caller's dialog
\* was open: it got true and the dialog is still that caller's.
C1_Witness ==
  /\ trace.results = <<"true">>
  /\ trace.proceeds = {}
  /\ \E g \in GuardIds :
       /\ Mounted(g)
       /\ ~IsDirty(props[g])
       /\ usePromptArgs(props[g]).onConfirm # NoCallback
  /\ open
  /\ confirm = DeleteRequest

\* C2: one confirm() of a dirty guard, called by the consumer or by the
\* blocker effect of a navigation attempt, calls show() exactly once, and after
\* it the dialog is visible with that guard's title, subtitle, two labels and type.
C2_DirtyConfirmShowsDialog ==
  [][\A g \in GuardIds :
       (/\ IsDirty(props[g])
        /\ DirectConfirm(g) \/ (~Blocked(g) /\ Blocked(g)'))
       => /\ trace'.results = <<"pending">>
          /\ trace'.shows = 1
          /\ Displayed' = ShownFor(usePromptArgs(props[g]))]_vars

\* The dialog of the guard with the custom texts is up after its confirm().
C2_Witness ==
  /\ trace.results = <<"pending">>
  /\ trace.shows = 1
  /\ Displayed = [open |-> TRUE, title |-> "Discard draft?",
                  subtitle |-> "Your draft will be lost.",
                  confirmText |-> "Discard", cancelText |-> "Keep",
                  type |-> "error"]

\* C3: on a visible dialog that confirm() opened and nobody answered yet, the
\* confirm button resolves the promise to true and invokes the configured
\* onConfirm once and nothing else; the cancel button and the close icon resolve
\* it to false and invoke the configured onCancel once and nothing else; the
\* dialog is closed afterwards, so no second answer follows.
C3_AnswerResolvesAndCallsBack ==
  [][(StoredPromise > 0 /\ promises[StoredPromise].state = "pending")
       => /\ UserConfirm =>
               /\ promises'[StoredPromise].state = "true"
               /\ trace'.invoked = Invocation(confirm.onConfirm.inner)
               /\ ~open'
          /\ (UserCancel \/ UserDismiss) =>
               /\ promises'[StoredPromise].state = "false"
               /\ trace'.invoked = Invocation(confirm.onCancel.inner)
               /\ ~open']_vars

\* The user cancelled the dialog of the guard with both callbacks: the promise
\* is false and onKeep alone ran.
C3_Witness ==
  /\ StoredPromise > 0
  /\ promises[StoredPromise].state = "false"
  /\ trace.invoked = <<"onKeep">>
  /\ confirm.onConfirm.inner = "onDiscard"
  /\ ~open

\* The visible dialog is the one confirm() opened for blocked transition n,
\* and the user has not answered it.
DialogUnanswered(n) ==
  /\ open
  /\ StoredPromise > 0
  /\ promises[StoredPromise] = [state |-> "pending", nav |-> n]

\* C4: when the router hands a guard a blocked transition, the guard calls
\* confirm(); when the result of a confirm() awaited for a blocked transition
\* is true the guard calls proceed() and the transition is completed (the
\* location is its target when it was still blocked), when it is false the
\* guard calls reset(), the location stays and the guard is not blocked.
C4_BlockedAsksThenProceedsOrResets ==
  [][/\ \A g \in GuardIds :
          (~Blocked(g) /\ Blocked(g)') => Len(trace'.results) = 1
     /\ \A p \in DOMAIN promises :
          (promises[p].state = "pending" /\ promises[p].nav > 0) =>
            LET n == promises[p].nav
                g == navs[n].guard
            IN  /\ promises'[p].state = "true" =>
                     /\ n \in trace'.proceeds
                     /\ navs'[n].status = "completed"
                     /\ blocker[g].nav = n => location' = navs[n].to
                /\ promises'[p].state = "false" =>
                     /\ n \in trace'.resets
                     /\ location' = location
                     /\ ~Blocked(g)'
     /\ \A g \in GuardIds, p \in PromptOptions :
          (Blocked(g) /\ Rerender(g, p) /\ trace'.results = <<"true">>) =>
            LET n == blocker[g].nav
            IN  /\ n \in trace'.proceeds
                /\ navs'[n].status = "completed"
                /\ location' = navs[n].to]_vars

\* The user pressed Leave on the dialog of a blocked transition: proceed() was
\* called and the location is the transition's target.
C4_Witness ==
  \E p \in DOMAIN promises :
    /\ promises[p].state = "true"
    /\ promises[p].nav > 0
    /\ trace.proceeds = {promises[p].nav}
    /\ navs[promises[p].nav].status = "completed"
    /\ location = navs[promises[p].nav].to
    /\ location # navs[promises[p].nav].from
    /\ ~open

\* C5: a blocked transition is never completed while the dialog opened for it
\* is still visible and unanswered.
C5_NoFinalizeWhileDialogUnanswered ==
  \A n \in DOMAIN navs : DialogUnanswered(n) => navs[n].status # "completed"

\* The requests waiting for the user's answer: the provider keeps one request
\* and shows it until a control is pressed.
PendingRequests == IF open /\ confirm # Null THEN {confirm} ELSE {}

\* C6: the dialog is visible if and only if exactly one request is pending.
C6_VisibleIffOnePending == open <=> Cardinality(PendingRequests) = 1

\* What the dialog shows for request r handed to show().
ShownForRequest(r) ==
  [open |-> TRUE,
   title |-> Get(r, "title", Undefined),
   subtitle |-> Get(r, "subtitle", Undefined),
   confirmText |-> Get(r, "confirmText", Undefined),
   cancelText |-> Get(r, "cancelText", Undefined),
   type |-> Get(r, "type", DefaultType)]

\* C7: the confirm button, the cancel button and the close icon leave the
\* dialog hidden; a show(r2) then (as always) displays the fields of r2 alone,
\* warning for a missing type, and stores r2's callbacks alone, and a control
\* invokes the stored request's callback for it and no other.
C7_NoLeakIntoNextShow ==
  [][/\ (UserConfirm \/ UserCancel \/ UserDismiss) => ~open'
     /\ \A r \in ExternalRequests :
          ExternalShow(r) =>
            /\ Displayed' = ShownForRequest(r)
            /\ Get(confirm', "onConfirm", Absent) = Get(r, "onConfirm", Absent)
            /\ Get(confirm', "onCancel", Absent) = Get(r, "onCancel", Absent)
     /\ UserConfirm =>
          trace'.invoked = Invocation(Get(confirm, "onConfirm", Absent).inner)
     /\ (UserCancel \/ UserDismiss) =>
          trace'.invoked = Invocation(Get(confirm, "onCancel", Absent).inner)]_vars

\* After a guard's dialog with type error and a cancel label was answered,
\* another caller's request without type and cancel label is shown: the type is
\* warning and there is no cancel label.
C7_Witness ==
  /\ trace.shows = 1
  /\ trace.results = <<>>
  /\ \E p \in DOMAIN promises : promises[p].state # "pending"
  /\ \A p \in DOMAIN promises : promises[p].nav > 0
  /\ \A g \in GuardIds : Mounted(g) => props[g] = DraftDirty
  /\ confirm = DeleteRequest
  /\ Displayed.open
  /\ Displayed.type = "warning"
  /\ Displayed.cancelText = Undefined
  /\ Get(confirm, "onCancel", Absent) = Absent

\* C8: a transition becomes blocked only by a navigation attempt made while
\* the guard is mounted with isDirty true, and the location stays; an attempt
\* made while no mounted guard is dirty reaches its target with no transition
\* blocked, no show() and the dialog as it was; an attempt made while a mounted
\* guard is dirty is blocked.
C8_BlockingExactlyWhenDirty ==
  [][/\ \A g \in GuardIds :
          (~Blocked(g) /\ Blocked(g)') =>
            /\ Mounted(g)
            /\ IsDirty(props[g])
            /\ location' = location
            /\ \E to \in Paths : Navigate(to)
     /\ \A to \in Paths :
          (Navigate(to) /\ \A g \in GuardIds : Mounted(g) => ~IsDirty(props[g])) =>
            /\ location' = to
            /\ \A g \in GuardIds : ~Blocked(g)'
            /\ trace'.shows = 0
            /\ UNCHANGED <<navs, open, confirm>>
     /\ \A to \in Paths :
          (Navigate(to) /\ \E g \in GuardIds : Mounted(g) /\ IsDirty(props[g])) =>
            /\ location' = location
            /\ \E g \in GuardIds : Blocked(g)']_vars

\* A guard that was given isDirty = false is mounted, the location changed and
\* no transition was ever blocked.
C8_Witness ==
  /\ \E g \in GuardIds : Mounted(g) /\ props[g] = CleanDefaults
  /\ location # "/"
  /\ navs = <<>>
  /\ trace = NewTrace
  /\ ~open

\* C9: when isDirty changes from true to false while the guard's transition is
\* blocked and its dialog unanswered, the guard calls neither proceed() nor
\* reset() in that render.
C9_FlagChangeLeavesBlockedAlone ==
  [][\A g \in GuardIds, p \in PromptOptions :
       (/\ Blocked(g)
        /\ DialogUnanswered(blocker[g].nav)
        /\ IsDirty(props[g])
        /\ ~IsDirty(p)
        /\ Rerender(g, p))
       => (trace'.proceeds = {} /\ trace'.resets = {})]_vars

\* C10: with one guard, while it is mounted with isDirty true,
\* window.onbeforeunload is a handler that returns the subtitle of its latest
\* render.
C10_UnloadHandlerReturnsSubtitle ==
  \A g \in GuardIds :
    (Mounted(g) /\ IsDirty(props[g])) =>
      onbeforeunload = Handler(usePromptArgs(props[g]).subtitle)

\* The guard is dirty with a subtitle of its own while the dialog still shows
\* the default subtitle of an earlier render: the handler returns the new one.
C10_Witness ==
  /\ \E g \in GuardIds :
       /\ Mounted(g)
       /\ IsDirty(props[g])
       /\ usePromptArgs(props[g]).subtitle = "Your draft will be lost."
  /\ onbeforeunload = Handler("Your draft will be lost.")
  /\ promises # <<>>
  /\ Displayed.subtitle = DefaultSubtitle

\* ---------------------------------------------------------------- C11
AllClean == \A g \in GuardIds : ~(Mounted(g) /\ IsDirty(props[g]))

TurnsClean(g) ==
  /\ Mounted(g) /\ IsDirty(props[g])
  /\ ~(Mounted(g)' /\ IsDirty(props'[g]))

\* C11: the step in which a guard's isDirty goes from true to false, or in
\* which its consumer unmounts, leaves window.onbeforeunload null, and while no
\* mounted guard is dirty window.onbeforeunload is null, whatever flag toggles,
\* subtitle changes and unmounts came before.
C11_CleanupClearsUnloadHandler ==
  /\ [](AllClean => onbeforeunload = NoHandler)
  /\ [][\A g \in GuardIds : TurnsClean(g) => onbeforeunload' = NoHandler]_vars

\* A guard that was dirty with a subtitle of its own, was asked a navigation
\* and answered, is unmounted and the handler is gone.
C11_Witness ==
  /\ ~Mounted(1)
  /\ onbeforeunload = NoHandler
  /\ navs # <<>>
  /\ navs[1].status # "blocked"

\* ---------------------------------------------------------------- C12
\* C12: while a mounted guard's isDirty is true, window.onbeforeunload is a
\* handler and the string it returns is not empty, whatever subtitle the
\* consumer passed, the empty string included.
C12_UnloadHandlerReturnsNonEmpty ==
  \A g \in GuardIds :
    (Mounted(g) /\ IsDirty(props[g])) =>
      /\ onbeforeunload # NoHandler
      /\ \A i \in DOMAIN onbeforeunload : onbeforeunload[i] # ""

\* ---------------------------------------------------------------- C13
UsesConfirm ==
  \/ \E g \in GuardIds, p \in PromptOptions : Mount(g, p)
  \/ \E r \in ExternalRequests : ExternalShow(r)

\* C13: with no ConfirmProvider above, every render that uses useConfirm (a
\* consumer of usePrompt, or a caller of show) throws 'useConfirm must be used
\* within a ConfirmProvider' and calls no show(); no guard is ever mounted, no
\* request is ever stored or shown and no promise is made. With a provider no
\* render throws.
C13_NoProviderThrowsAtFirstUse ==
  /\ [](~provided =>
          /\ \A g \in GuardIds : ~Mounted(g)
          /\ confirm = Null /\ ~open
          /\ trace.shows = 0 /\ promises = <<>>
          /\ onbeforeunload = NoHandler)
  /\ [](provided => trace.error = "")
  /\ [][(~provided /\ UsesConfirm) =>
          /\ trace'.error = "useConfirm must be used within a ConfirmProvider"
          /\ trace'.shows = 0]_vars

\* A render without a provider has thrown the error.
C13_Witness ==
  /\ ~provided
  /\ trace.error = "useConfirm must be used within a ConfirmProvider"
  /\ \A g \in GuardIds : ~Mounted(g)

\* ---------------------------------------------------------------- C14
\* A request is displayed and unanswered.
RequestPending == open /\ confirm # Null

\* The promises of confirm() whose request is no longer the stored one.
Overwritten ==
  {p \in DOMAIN promises : promises[p].state = "pending" /\ p # StoredPromise}

\* C14: a show(r2) while a request is displayed and unanswered stores and
\* displays r2 alone, settles no promise and invokes no callback; a control
\* pressed afterwards invokes callbacks of the stored request only; and a
\* pending promise of confirm() whose request was overwritten stays pending and
\* overwritten in every step.
C14_LastShowWins ==
  [][/\ \A r \in ExternalRequests :
          (RequestPending /\ ExternalShow(r)) =>
            /\ confirm' = r
            /\ Displayed' = ShownForRequest(r)
            /\ promises' = promises
            /\ trace'.invoked = <<>>
     /\ \A g \in GuardIds :
          (RequestPending /\ DirectConfirm(g) /\ IsDirty(props[g])) =>
            /\ confirm' = promptRequest(usePromptArgs(props[g]), Len(promises) + 1)
            /\ Displayed' = ShownFor(usePromptArgs(props[g]))
            /\ \A p \in DOMAIN promises : promises'[p] = promises[p]
            /\ trace'.invoked = <<>>
     /\ \A p \in Overwritten :
          /\ promises'[p] = promises[p]
          /\ p \in Overwritten'
     /\ (UserConfirm \/ UserCancel \/ UserDismiss) =>
          \A i \in DOMAIN trace'.invoked :
            trace'.invoked[i] \in {Get(confirm, "onConfirm", Absent).inner,
                                   Get(confirm, "onCancel", Absent).inner}]_vars

\* The request of a confirm() was overwritten by the delete request, the user
\* confirmed that one: its callback alone ran and the promise of the confirm()
\* is still pending.
C14_Witness ==
  /\ ~open
  /\ confirm = DeleteRequest
  /\ trace.invoked = <<"onDelete">>
  /\ promises # <<>>
  /\ promises[1].state = "pending"

\* ---------------------------------------------------------------- C15
\* What calling stored callback cb does: the promise of a wrapper of confirm()
\* is settled with the wrapper's value, the consumer's function is invoked; an
\* absent callback settles and invokes nothing.
CallbackRan(cb) ==
  /\ trace'.invoked = Invocation(cb.inner)
  /\ \A p \in DOMAIN promises :
       promises'[p].state =
         IF p = cb.promise /\ promises[p].state = "pending"
         THEN (IF cb.value THEN "true" ELSE "false")
         ELSE promises[p].state

\* C15: the confirm button calls the stored request's onConfirm and, the
\* callback having returned, leaves the dialog hidden; the cancel button and
\* the close icon call the stored request's onCancel and leave the dialog
\* hidden; for an absent callback and for a stored null nothing is called and
\* the dialog is hidden all the same.
C15_ControlsCallBackThenClose ==
  [][/\ UserConfirm =>
          (CallbackRan(Get(confirm, "onConfirm", Absent)) /\ ~open')
     /\ (UserCancel \/ UserDismiss) =>
          (CallbackRan(Get(confirm, "onCancel", Absent)) /\ ~open')
     /\ ((UserConfirm \/ UserCancel \/ UserDismiss) /\ confirm = Null) =>
          (trace'.invoked = <<>> /\ promises' = promises /\ ~open')]_vars

\* show(null) replaced the request of a confirm() and a control was pressed:
\* the dialog is hidden and nothing was called.
C15_Witness ==
  /\ confirm = Null
  /\ ~open
  /\ promises # <<>>
  /\ promises[Len(promises)].state = "pending"
  /\ trace.invoked = <<>>

\* ---------------------------------------------------------------- C16
\* C16: every call of show() returned a promise (that resolves to whether the
\* user confirmed).
C16_ShowReturnsPromise ==
  \A i \in DOMAIN trace.returned : trace.returned[i] = "Promise<boolean>"

\* ---------------------------------------------------------------- C17
OnlyGuard(g) == Mounted(g) /\ \A h \in GuardIds \ {g} : ~Mounted(h)

\* C17: a navigation attempt while the only guard was given isDirty: true and
\* nothing else is blocked and shows the dialog titled 'You have unsaved
\* changes!' with subtitle 'Are you sure you want to leave?', the labels
\* 'Leave' and 'Stay' and severity 'warning'; a guard given no isDirty is
\* clean: its navigation goes through with no dialog and its confirm() resolves
\* to true at once.
C17_DefaultTextsAndCleanByDefault ==
  [][\A g \in GuardIds :
       /\ \A to \in Paths :
            /\ (Navigate(to) /\ OnlyGuard(g) /\ props[g] = [isDirty |-> TRUE]) =>
                 /\ Blocked(g)'
                 /\ location' = location
                 /\ Displayed' = [open |-> TRUE,
                                  title |-> "You have unsaved changes!",
                                  subtitle |-> "Are you sure you want to leave?",
                                  confirmText |-> "Leave",
                                  cancelText |-> "Stay",
                                  type |-> "warning"]
            /\ (Navigate(to) /\ OnlyGuard(g) /\ "isDirty" \notin DOMAIN props[g]) =>
                 /\ location' = to
                 /\ trace'.shows = 0
                 /\ UNCHANGED <<confirm, open>>
       /\ (DirectConfirm(g) /\ "isDirty" \notin DOMAIN props[g]) =>
            /\ trace'.results = <<"true">>
            /\ trace'.shows = 0]_vars

\* The guard given isDirty: true alone is blocked and its dialog shows the
\* default texts.
C17_Witness ==
  /\ props[1] = [isDirty |-> TRUE]
  /\ Blocked(1)
  /\ open
  /\ Displayed.title = "You have unsaved changes!"
  /\ Displayed.confirmText = "Leave"
  /\ Displayed.cancelText = "Stay"
  /\ Displayed.type = "warning"

\* ---------------------------------------------------------------- C18
\* C18 as stated: while the dialog is closed the provider holds no request.
C18_ClosedHoldsNoRequest == ~open => confirm = Null

\* C18: the provider holds one request at most (the one show() stored last); a
\* confirm, cancel or dismiss whose callback returned hides the dialog and
\* leaves the stored request in place; no control is pressed while the dialog
\* is hidden, so the kept request is answered once at most; and only a show()
\* changes the stored request.
C18_AnsweredRequestKeptButClosed ==
  [][/\ (UserConfirm \/ UserCancel \/ UserDismiss) =>
          (open /\ ~open' /\ confirm' = confirm)
     /\ confirm' # confirm => (trace'.shows > 0 /\ open')]_vars

\* The request of a confirm() was answered: the dialog is hidden and the
\* provider still holds the request.
C18_Witness ==
  /\ ~open
  /\ StoredPromise > 0
  /\ promises[StoredPromise].state # "pending"
  /\ confirm.title = DefaultTitle

\* ---------------------------------------------------------------- C19
\* A transition of guard g was reset before.
WasReset(g) ==
  \E n \in DOMAIN navs : navs[n].guard = g /\ navs[n].status = "reset"

\* More transitions and promises fit the bounds of the model.
WithinBounds == Len(navs) < MaxNavs /\ Len(promises) < MaxPromises

\* C19: a cancel or dismiss of the dialog of a blocked transition resets it:
\* the guard is not blocked, the location and the guard's flag are as before.
\* A guard that is mounted, dirty and not blocked can always be asked a
\* navigation, also after resets, and every navigation attempt made while the
\* only guard is dirty, after a reset as well, is blocked and shows the guard's
\* dialog.
C19_RearmedAfterReset ==
  /\ [][\A g \in GuardIds :
          /\ (Blocked(g) /\ DialogUnanswered(blocker[g].nav)
                /\ (UserCancel \/ UserDismiss)) =>
               /\ ~Blocked(g)'
               /\ navs'[blocker[g].nav].status = "reset"
               /\ location' = location
               /\ props'[g] = props[g]
          /\ \A to \in Paths :
               (Navigate(to) /\ OnlyGuard(g) /\ IsDirty(props[g]) /\ WasReset(g)) =>
                 /\ Blocked(g)'
                 /\ blocker'[g].nav = Len(navs) + 1
                 /\ location' = location
                 /\ trace'.shows = 1
                 /\ Displayed' = ShownFor(usePromptArgs(props[g]))]_vars
  /\ [](\A g \in GuardIds :
          (OnlyGuard(g) /\ IsDirty(props[g]) /\ ~Blocked(g) /\ WithinBounds) =>
            ENABLED (\E to \in Paths : Navigate(to)))

\* The first transition was reset by a cancel, the guard is still dirty and
\* the next attempt is blocked with its dialog open.
C19_Witness ==
  /\ Len(navs) = 2
  /\ navs[1].status = "reset"
  /\ IsDirty(props[1])
  /\ Blocked(1)
  /\ DialogUnanswered(2)

\* ---------------------------------------------------------------- C20
\* The consumer of guard g passes its flag and options: a first render, a
\* later render, or its unmount.
ConsumerRenders(g) ==
  \/ Mount(g, props'[g])
  \/ Rerender(g, props'[g])
  \/ Unmount(g)

\* C20: what a guard was given, its isDirty first of all, changes only in a
\* step in which its consumer renders it or unmounts it, and no other guard's
\* changes in that step: confirm(), a navigation attempt with the blocker
\* effect it starts, a show() and the three controls with the proceed() or
\* reset() they lead to leave every guard's isDirty as it was, and after a
\* render the guard's isDirty is what the consumer passed, whatever the
\* blocker effect and the before-unload effect did in it.
C20_GuardNeverChangesDirtyFlag ==
  [][props' # props =>
       \E g \in GuardIds :
         /\ ConsumerRenders(g)
         /\ \A h \in GuardIds \ {g} : props'[h] = props[h]]_vars

\* The user cancelled one blocked transition and confirmed the next, and the
\* guard is as dirty as it was.
C20_Witness ==
  /\ Len(navs) = 2
  /\ navs[1].status = "reset"
  /\ trace.proceeds = {2}
  /\ Mounted(1)
  /\ IsDirty(props[1])

\* ---------------------------------------------------------------- C21
\* C21: ContactPage mounts with isDirty false and empty fields; a change of
\* name, email or message sets isDirty true and stores the value; a submit sets
\* isDirty false and the fields to their initial empty values; no other step
\* changes the flag of the mounted page; the guard is given the page's flag;
\* and a click on a link away from the mounted page is blocked, the location
\* staying and the dialog shown, when the flag is true and goes through with
\* no show() when it is false.
C21_ContactDirtyFlag ==
  /\ [](contact.mounted => props[ContactGuard] = [isDirty |-> contact.isDirty])
  /\ [][/\ ContactMount =>
             (~contact'.isDirty /\ contact'.state = [name |-> "", email |-> "",
                                                     message |-> ""])
        /\ \A field \in Fields, value \in FieldValues :
             InputChange(field, value) =>
               /\ contact'.isDirty
               /\ contact'.state = [contact.state EXCEPT ![field] = value]
        /\ Submit =>
             (~contact'.isDirty /\ contact'.state = [name |-> "", email |-> "",
                                                     message |-> ""])
        /\ (contact.mounted /\ contact'.mounted
              /\ contact'.isDirty # contact.isDirty) =>
             \/ Submit
             \/ \E field \in Fields, value \in FieldValues :
                  InputChange(field, value)
        /\ \A to \in Paths :
             (LinkClick(to) /\ contact.mounted) =>
               IF contact.isDirty
               THEN /\ Blocked(ContactGuard)'
                    /\ location' = location
                    /\ open' /\ trace'.shows = 1
               ELSE /\ ~Blocked(ContactGuard)'
                    /\ location' = to
                    /\ trace'.shows = 0]_vars

\* A changed form blocked a click on a link, the user stayed, filled the form
\* and submitted it: the page is clean and empty again.
C21_Witness ==
  /\ contact = [mounted |-> TRUE, state |-> initialState, isDirty |-> FALSE]
  /\ Len(navs) = 1
  /\ navs[1].status = "reset"
  /\ location = ContactPath

\* ---------------------------------------------------------------- C22
AllFilled == \A field \in Fields : contact.state[field] # ""

\* C22: the submit of the rendered ContactPage is possible if and only if
\* name, email and message are all non-empty; every submit, and so every step
\* of the mounted page from dirty to clean, starts with the three fields
\* non-empty.
C22_SubmitNeedsAllFields ==
  /\ []((contact.mounted /\ RouteSettled) => (ENABLED Submit <=> AllFilled))
  /\ [][/\ Submit => AllFilled
        /\ (contact.mounted /\ contact'.mounted
              /\ contact.isDirty /\ ~contact'.isDirty) => AllFilled]_vars

\* Two fields are filled and the third was emptied again: the form is dirty
\* and cannot be submitted.
C22_Witness ==
  /\ contact.mounted
  /\ contact.isDirty
  /\ contact.state = [name |-> "a", email |-> "a", message |-> ""]
  /\ ~ENABLED Submit

\* ---------------------------------------------------------------- C23
\* C23: every proceed() and every reset() the guard calls is for a transition
\* that is blocked at the call and so had neither called for it before, and no
\* task calls both for one transition.
C23_OneFinalizePerTransition ==
  [][/\ \A n \in trace'.proceeds \cup trace'.resets :
          n \in DOMAIN navs /\ navs[n].status = "blocked"
     /\ trace'.proceeds \cap trace'.resets = {}]_vars

\* ---------------------------------------------------------------- C24
\* C24: when the user answers every dialog that stays displayed, a guard that
\* is blocked is eventually not blocked (its transition was proceeded or
\* reset), whatever show() and confirm() calls other callers make meanwhile.
C24_BlockedEventuallyFinalized ==
  \A g \in GuardIds : Blocked(g) ~> ~Blocked(g)

\* ---------------------------------------------------------------- C25
\* C25: while at least one mounted guard has isDirty true,
\* window.onbeforeunload is a handler.
C25_HandlerWhileAnyGuardDirty ==
  (\E g \in GuardIds : Mounted(g) /\ IsDirty(props[g])) =>
    onbeforeunload # NoHandler

\* ---------------------------------------------------------------- C26
\* The consumer's function inside the stored callback of a request of confirm().
StoredInner(name) == Get(confirm, name, Absent).inner

\* The pending promise of the stored request is resolved to result, the
\* transition waiting for it (if it is still blocked) is proceeded or reset
\* accordingly, the throwing function was invoked and the dialog stays
\* visible with its request.
DeliveredThoughThrown(name, result) ==
  LET p == StoredPromise
      n == promises[p].nav
  IN  /\ promises'[p].state = (IF result THEN "true" ELSE "false")
      /\ trace'.invoked = <<StoredInner(name)>>
      /\ open' /\ confirm' = confirm
      /\ (n > 0 /\ navs[n].status = "blocked") =>
           IF result
           THEN n \in trace'.proceeds /\ location' = navs[n].to
           ELSE n \in trace'.resets /\ location' = location

\* C26: when the consumer's onConfirm (onCancel) throws, the confirm button
\* (the cancel button, the close icon) still resolves the pending promise of
\* confirm() to true (false), the awaiting guard proceeds (resets), and the
\* dialog stays visible.
C26_ResultDeliveredWhenCallbackThrows ==
  [][(StoredPromise > 0 /\ promises[StoredPromise].state = "pending") =>
       /\ (UserConfirm /\ StoredInner("onConfirm") \in Throwing) =>
            DeliveredThoughThrown("onConfirm", TRUE)
       /\ ((UserCancel \/ UserDismiss) /\ StoredInner("onCancel") \in Throwing) =>
            DeliveredThoughThrown("onCancel", FALSE)]_vars

\* The user confirmed, onConfirm threw: the transition was completed and the
\* dialog is still visible.
C26_Witness ==
  /\ open
  /\ StoredPromise > 0
  /\ promises[StoredPromise].state = "true"
  /\ trace.invoked = <<"onThrow">>
  /\ trace.proceeds # {}
  /\ location = "/contact"

====
